---------------------------- MODULE Spec2Model ----------------------------
(***************************************************************************)
(* Model of the vid2Quiz backend: getYouTubeTranscript (src/transcript.js) *)
(* and generateQuizQuestions (src/server.js).                              *)
(*                                                                         *)
(* JavaScript strings are sequences of one-character strings, so that      *)
(* String.prototype.includes, split, join, the regular expressions, the    *)
(* repair pass and JSON.parse are computed character by character.  The   *)
(* grave accent, which a TLA+ string cannot hold, is written "GRAVE".       *)
(***************************************************************************)
EXTENDS Integers, Sequences, FiniteSets, TLC

VARIABLES tpc, videoId, provider, tOutcome,
          qpc, apiKey, netCalls, response, parseAttempts, qOutcome

tvars == <<tpc, videoId, provider, tOutcome>>
qvars == <<qpc, apiKey, netCalls, response, parseAttempts, qOutcome>>
vars == <<tpc, videoId, provider, tOutcome,
          qpc, apiKey, netCalls, response, parseAttempts, qOutcome>>

(***************************************************************************)
(* Bounds of the explored inputs.                                          *)
(***************************************************************************)
\* longest run of one repeated caption fragment
MaxRun == 51
\* longest run of a second, different fragment that follows it
MaxTail == 1
\* most chunks concatenated into the middle of a model text
MaxChunks == 4

(***************************************************************************)
(* String helpers.                                                         *)
(***************************************************************************)
\* String.prototype.includes(needle)
Includes(s, needle) ==
    \E i \in 0..(Len(s) - Len(needle)) : SubSeq(s, i + 1, i + Len(needle)) = needle

\* the characters the regular-expression class \s and String.prototype.trim
\* treat as white space, among the characters that occur in this model
IsSpace(c) == c \in {" ", "\n", "\t"}

\* n copies of the element x
Rep(x, n) == [i \in 1..n |-> x]

RECURSIVE Join(_, _)
\* Array.prototype.join(sep) of an array of strings
Join(texts, sep) ==
    IF Len(texts) = 0 THEN <<>>
    ELSE IF Len(texts) = 1 THEN texts[1]
    ELSE texts[1] \o sep \o Join(Tail(texts), sep)

\* String.prototype.split(' '): the pieces between single space characters;
\* piece k lies between the separators k - 1 and k
SplitOnSpace(s) ==
    LET IsSep(i) == s[i] = " "
        seps == SelectSeq([i \in 1..Len(s) |-> i], IsSep)
        n == Len(seps)
        From(k) == IF k = 1 THEN 1 ELSE seps[k - 1] + 1
        To(k) == IF k = n + 1 THEN Len(s) ELSE seps[k] - 1
    IN  [k \in 1..(n + 1) |-> IF From(k) > To(k) THEN <<>> ELSE SubSeq(s, From(k), To(k))]

(***************************************************************************)
(* src/transcript.js                                                       *)
(***************************************************************************)
\* the threshold of the length check
MinWords == 50

MsgInvalidVideoId == <<"I", "n", "v", "a", "l", "i", "d", " ", "v", "i", "d", "e", "o", " ", "I", "D", " ", "p", "r", "o", "v", "i", "d", "e", "d">>
MsgNoCaptionsFound == <<"N", "o", " ", "c", "a", "p", "t", "i", "o", "n", "s", " ", "f", "o", "u", "n", "d", " ", "f", "o", "r", " ", "t", "h", "i", "s", " ", "v", "i", "d", "e", "o">>
NeedleNoCaptions == <<"N", "o", " ", "c", "a", "p", "t", "i", "o", "n", "s">>
NeedleInvalidVideoId == <<"I", "n", "v", "a", "l", "i", "d", " ", "v", "i", "d", "e", "o", " ", "I", "D">>
\* messages of the TypeErrors the engine raises inside the try block
MsgMapNotFunction == <<"c", "a", "p", "t", "i", "o", "n", "s", ".", "m", "a", "p", " ", "i", "s", " ", "n", "o", "t", " ", "a", " ", "f", "u", "n", "c", "t", "i", "o", "n">>
MsgReadTextOfNull == <<"C", "a", "n", "n", "o", "t", " ", "r", "e", "a", "d", " ", "p", "r", "o", "p", "e", "r", "t", "i", "e", "s", " ", "o", "f", " ", "n", "u", "l", "l", " ", "(", "r", "e", "a", "d", "i", "n", "g", " ", "'", "t", "e", "x", "t", "'", ")">>

ErrTooShort == "Not enough reliable information in the transcript"
ErrNoCaptions == "No captions available for this video. Please try a video with subtitles."
ErrInvalidVideoId == "Invalid YouTube video ID provided"
ErrGeneric == "Failed to extract transcript. Please try another video."

\* a JavaScript value handed in as videoId
JsUndefined == [t |-> "undefined", s |-> <<>>, n |-> 0]
JsNull == [t |-> "null", s |-> <<>>, n |-> 0]
JsStr(s) == [t |-> "string", s |-> s, n |-> 0]
JsNum(n) == [t |-> "number", s |-> <<>>, n |-> n]

\* ToBoolean
Truthy(v) ==
    CASE v.t = "string" -> Len(v.s) > 0
      [] v.t = "number" -> v.n # 0
      [] OTHER -> FALSE

VideoIds == {JsUndefined, JsNull, JsStr(<<>>), JsNum(0), JsNum(42),
             JsStr(<<"d", "Q", "w", "4", "w", "9", "W", "g", "X", "c", "Q">>)}

\* a thrown value: an Error carrying a string message, or a value whose
\* .message is undefined (a thrown string, a thrown plain object)
Err(m) == [hasMessage |-> TRUE, message |-> m]
NoMessageThrown == [hasMessage |-> FALSE, message |-> <<>>]

\* the texts of the caption fragments the provider hands out
FragTexts == {<<>>, <<"a">>, <<"a", " ", "b">>, <<"a", "\n", "b">>}

\* a caption fragment {start, dur, text}; only text is read
Frag(txt) == [isNull |-> FALSE, text |-> txt]
NullFrag == [isNull |-> TRUE, text |-> <<>>]

\* what getSubtitles resolves with
CaptionArrays ==
    { [t |-> "array", items |-> Rep(Frag(f), n) \o Rep(Frag(g), m)] :
        f \in FragTexts, g \in FragTexts, n \in 0..MaxRun, m \in 0..MaxTail }
CaptionValues ==
    CaptionArrays \cup
    { [t |-> "undefined", items |-> <<>>],
      [t |-> "null", items |-> <<>>],
      \* a truthy value that is no array (it has no map method)
      [t |-> "object", items |-> <<>>],
      \* an array holding a null element
      [t |-> "array", items |-> <<Frag(<<"a">>), NullFrag>>] }

\* what getSubtitles rejects with
ProviderFailures ==
    { Err(<<"N", "o", " ", "c", "a", "p", "t", "i", "o", "n", "s">>), Err(<<"N", "o", " ", "c", "a", "p", "t", "i", "o", "n", "s", " ", "f", "o", "u", "n", "d">>),
      Err(<<"C", "o", "u", "l", "d", " ", "n", "o", "t", " ", "f", "i", "n", "d", " ", "c", "a", "p", "t", "i", "o", "n", "s", " ", "f", "o", "r", " ", "v", "i", "d", "e", "o">>),
      Err(<<"n", "o", " ", "c", "a", "p", "t", "i", "o", "n", "s">>), Err(<<"I", "n", "v", "a", "l", "i", "d", " ", "v", "i", "d", "e", "o", " ", "I", "D">>),
      Err(<<"n", "e", "t", "w", "o", "r", "k", " ", "t", "i", "m", "e", "o", "u", "t">>), Err(<<>>), NoMessageThrown }

NoOutcome == [kind |-> "none", text |-> <<>>, error |-> ""]
ReturnedTranscript(s) == [kind |-> "transcript", text |-> s, error |-> ""]
ReturnedError(e) == [kind |-> "error", text |-> <<>>, error |-> e]
\* the promise of the async function rejects: the failure escapes to the caller
Rejected == [kind |-> "rejected", text |-> <<>>, error |-> "TypeError"]

\* the catch block: classification by the message of the thrown value
CatchBlock(e) ==
    IF ~e.hasMessage
    THEN \* error.message is undefined: undefined.includes raises a TypeError
         \* inside the catch block, which nothing catches
         Rejected
    ELSE IF Includes(e.message, NeedleNoCaptions) THEN ReturnedError(ErrNoCaptions)
    ELSE IF Includes(e.message, NeedleInvalidVideoId) THEN ReturnedError(ErrInvalidVideoId)
    ELSE ReturnedError(ErrGeneric)

\* !videoId || typeof videoId !== 'string'
InvalidVideoId(v) == ~Truthy(v) \/ v.t # "string"

\* !captions alone: the length of the array is not looked at
NoCaptionsIgnoresEmpty(c) == c.t \in {"undefined", "null"}

\* !captions || captions.length === 0
NoCaptions(c) == c.t \in {"undefined", "null"} \/ (c.t = "array" /\ Len(c.items) = 0)

\* captions.map(c => c.text).join(" ")
TranscriptOf(c) == Join([i \in 1..Len(c.items) |-> c.items[i].text], <<" ">>)

\* transcript.split(' ').length < 50
TooShort(transcript) == Len(SplitOnSpace(transcript)) < MinWords

\* the try block after the await, for the value c the provider resolved with
AfterSubtitles(c) ==
    IF NoCaptions(c) THEN CatchBlock(Err(MsgNoCaptionsFound))
    ELSE IF c.t # "array" THEN CatchBlock(Err(MsgMapNotFunction))
    ELSE IF \E i \in 1..Len(c.items) : c.items[i].isNull
         THEN CatchBlock(Err(MsgReadTextOfNull))
    ELSE IF TooShort(TranscriptOf(c)) THEN ReturnedError(ErrTooShort)
    ELSE ReturnedTranscript(TranscriptOf(c))

NoProvider == [kind |-> "none", value |-> [t |-> "undefined", items |-> <<>>],
               thrown |-> NoMessageThrown]

\* getYouTubeTranscript(v) up to its await
GetYouTubeTranscript(v) ==
    /\ tpc \in {"idle", "done"}
    /\ videoId' = v
    /\ provider' = NoProvider
    /\ IF InvalidVideoId(v)
       THEN /\ tOutcome' = CatchBlock(Err(MsgInvalidVideoId))
            /\ tpc' = "done"
       ELSE /\ tOutcome' = NoOutcome
            /\ tpc' = "awaiting"
    /\ UNCHANGED qvars

\* getSubtitles resolves with c and the function runs to its end
GetSubtitlesResolves(c) ==
    /\ tpc = "awaiting"
    /\ provider' = [kind |-> "resolved", value |-> c, thrown |-> NoMessageThrown]
    /\ tOutcome' = AfterSubtitles(c)
    /\ tpc' = "done"
    /\ UNCHANGED <<videoId, qvars>>

\* getSubtitles rejects with e and the catch block runs
GetSubtitlesRejects(e) ==
    /\ tpc = "awaiting"
    /\ provider' = [kind |-> "rejected", value |-> [t |-> "undefined", items |-> <<>>],
                    thrown |-> e]
    /\ tOutcome' = CatchBlock(e)
    /\ tpc' = "done"
    /\ UNCHANGED <<videoId, qvars>>

(***************************************************************************)
(* JSON.parse (ECMA-404), on sequences of characters.  A parsed value is   *)
(* [t, chars, items]: t names the kind, chars holds a number's lexeme, a   *)
(* string's characters or a member's key, items the elements of an array,  *)
(* the members of an object or the value of a member.                      *)
(***************************************************************************)
JV(t, chars, items) == [t |-> t, chars |-> chars, items |-> items]
JNum(lex) == JV("number", lex, <<>>)
JStr(cs) == JV("string", cs, <<>>)
JArr(items) == JV("array", <<>>, items)
JObj(members) == JV("object", <<>>, members)
JMember(key, v) == JV("member", key, <<v>>)
JLit(name) == JV(name, <<>>, <<>>)

\* the result of a parsing step: the value and the position after it
POk(v, pos) == [ok |-> TRUE, val |-> v, pos |-> pos]
PFail == [ok |-> FALSE, val |-> JLit("null"), pos |-> 0]

IsJsonWs(c) == c \in {" ", "\n", "\t", "\r"}
IsDigit(c) == c \in {"0", "1", "2", "3", "4", "5", "6", "7", "8", "9"}
IsHex(c) == IsDigit(c) \/ c \in {"a", "b", "c", "d", "e", "f", "A", "B", "C", "D", "E", "F"}
\* the characters below U+0020 that occur in this model
IsControl(c) == c \in {"\n", "\t", "\r"}

\* the character at position i, "" past the end
At(s, i) == IF i >= 1 /\ i <= Len(s) THEN s[i] ELSE ""

\* the characters at positions a..b that exist (String.prototype.slice)
Slice(s, a, b) ==
    LET e == IF b > Len(s) THEN Len(s) ELSE b IN
    IF a > e THEN <<>> ELSE SubSeq(s, a, e)

RECURSIVE SkipWs(_, _)
\* the first position from i on that holds no JSON white space
SkipWs(s, i) == IF IsJsonWs(At(s, i)) THEN SkipWs(s, i + 1) ELSE i

RECURSIVE SkipDigits(_, _)
SkipDigits(s, i) == IF IsDigit(At(s, i)) THEN SkipDigits(s, i + 1) ELSE i

\* the character an escape sequence \e stands for
Unescape(e) ==
    CASE e = "n" -> "\n"
      [] e = "t" -> "\t"
      [] e = "r" -> "\r"
      [] e = "b" -> "\\b"
      [] e = "f" -> "\\f"
      [] OTHER -> e

RECURSIVE ScanString(_, _, _)
\* the rest of a string literal whose opening quote has been read
ScanString(s, i, acc) ==
    LET c == At(s, i) IN
    IF i > Len(s) THEN PFail
    ELSE IF c = "\"" THEN POk(JStr(acc), i + 1)
    ELSE IF c = "\\" THEN
        LET e == At(s, i + 1) IN
        IF e \in {"\"", "\\", "/", "b", "f", "n", "r", "t"}
        THEN ScanString(s, i + 2, Append(acc, Unescape(e)))
        ELSE IF e = "u" /\ \A k \in 2..5 : IsHex(At(s, i + k))
        THEN ScanString(s, i + 6,
                 Append(acc, "\\u" \o s[i + 2] \o s[i + 3] \o s[i + 4] \o s[i + 5]))
        ELSE PFail
    ELSE IF IsControl(c) THEN PFail
    ELSE ScanString(s, i + 1, Append(acc, c))

\* a number: -? (0 | [1-9][0-9]*) (. [0-9]+)? ([eE] [+-]? [0-9]+)?
ParseNumber(s, i) ==
    LET a == IF At(s, i) = "-" THEN i + 1 ELSE i
        b == IF At(s, a) = "0" THEN a + 1 ELSE SkipDigits(s, a)
        f == IF At(s, b) = "." THEN SkipDigits(s, b + 1) ELSE b
        x == IF At(s, f) \in {"e", "E"}
             THEN IF At(s, f + 1) \in {"+", "-"} THEN f + 2 ELSE f + 1
             ELSE f
        z == IF x > f THEN SkipDigits(s, x) ELSE f
    IN  IF b = a THEN PFail
        ELSE IF At(s, b) = "." /\ f = b + 1 THEN PFail
        ELSE IF x > f /\ z = x THEN PFail
        ELSE POk(JNum(SubSeq(s, i, z - 1)), z)

ParseLiteral(s, i) ==
    IF Slice(s, i, i + 3) = <<"t", "r", "u", "e">> THEN POk(JLit("true"), i + 4)
    ELSE IF Slice(s, i, i + 4) = <<"f", "a", "l", "s", "e">> THEN POk(JLit("false"), i + 5)
    ELSE IF Slice(s, i, i + 3) = <<"n", "u", "l", "l">> THEN POk(JLit("null"), i + 4)
    ELSE PFail

\* an object's members with the member (key, v) set: a repeated key keeps its
\* place and takes the later value
WithMember(members, key, v) ==
    IF \E k \in 1..Len(members) : members[k].chars = key
    THEN [k \in 1..Len(members) |->
             IF members[k].chars = key THEN JMember(key, v) ELSE members[k]]
    ELSE Append(members, JMember(key, v))

RECURSIVE ParseValue(_, _)
RECURSIVE ParseElements(_, _, _)
RECURSIVE ParseMembers(_, _, _)

\* the elements of an array from position i (white space skipped) on
ParseElements(s, i, acc) ==
    LET v == ParseValue(s, i) IN
    IF ~v.ok THEN PFail
    ELSE LET k == SkipWs(s, v.pos) IN
         IF At(s, k) = "," THEN ParseElements(s, SkipWs(s, k + 1), Append(acc, v.val))
         ELSE IF At(s, k) = "]" THEN POk(JArr(Append(acc, v.val)), k + 1)
         ELSE PFail

\* the members of an object from position i (white space skipped) on
ParseMembers(s, i, acc) ==
    IF At(s, i) # "\"" THEN PFail
    ELSE LET key == ScanString(s, i + 1, <<>>) IN
         IF ~key.ok THEN PFail
         ELSE LET c == SkipWs(s, key.pos) IN
              IF At(s, c) # ":" THEN PFail
              ELSE LET v == ParseValue(s, SkipWs(s, c + 1)) IN
                   IF ~v.ok THEN PFail
                   ELSE LET k == SkipWs(s, v.pos)
                            now == WithMember(acc, key.val.chars, v.val)
                        IN  IF At(s, k) = "," THEN ParseMembers(s, SkipWs(s, k + 1), now)
                            ELSE IF At(s, k) = "}" THEN POk(JObj(now), k + 1)
                            ELSE PFail

\* the value that starts at position i
ParseValue(s, i) ==
    LET c == At(s, i) IN
    IF c = "[" THEN
        LET j == SkipWs(s, i + 1) IN
        IF At(s, j) = "]" THEN POk(JArr(<<>>), j + 1) ELSE ParseElements(s, j, <<>>)
    ELSE IF c = "{" THEN
        LET j == SkipWs(s, i + 1) IN
        IF At(s, j) = "}" THEN POk(JObj(<<>>), j + 1) ELSE ParseMembers(s, j, <<>>)
    ELSE IF c = "\"" THEN ScanString(s, i + 1, <<>>)
    ELSE IF c = "-" \/ IsDigit(c) THEN ParseNumber(s, i)
    ELSE ParseLiteral(s, i)

\* JSON.parse(s): ok is FALSE where it throws a SyntaxError
JsonParse(s) ==
    LET v == ParseValue(s, SkipWs(s, 1)) IN
    IF v.ok /\ SkipWs(s, v.pos) = Len(s) + 1 THEN v ELSE PFail

(***************************************************************************)
(* The regular expressions of the extraction.                              *)
(***************************************************************************)
NoMatch == [found |-> FALSE, text |-> <<>>]
Match(txt) == [found |-> TRUE, text |-> txt]

\* the positions of s that hold the character c
Positions(s, c) == {i \in 1..Len(s) : s[i] = c}
Min(S) == CHOOSE x \in S : \A y \in S : x <= y
Max(S) == CHOOSE x \in S : \A y \in S : x >= y

\* content.match(/\[[\s\S]*\]/): leftmost start, greedy to the last "]"
MatchArray(s) ==
    LET starts == {i \in Positions(s, "[") : \E j \in Positions(s, "]") : j > i} IN
    IF starts = {} THEN NoMatch
    ELSE Match(SubSeq(s, Min(starts), Max(Positions(s, "]"))))

Fence == <<"GRAVE", "GRAVE", "GRAVE">>
JsonTag == <<"j", "s", "o", "n">>

RECURSIVE SkipSpace(_, _)
\* the first position from i on that \s does not match
SkipSpace(s, i) == IF IsSpace(At(s, i)) THEN SkipSpace(s, i + 1) ELSE i

\* where the group of the fenced pattern starts for a fence at p, 0 if the
\* pattern cannot match there: three grave accents, (?:json)?, \s*, then "["
FenceGroupStart(s, p) ==
    IF Slice(s, p, p + 2) # Fence THEN 0
    ELSE LET q == IF Slice(s, p + 3, p + 6) = JsonTag THEN p + 7 ELSE p + 3
             r == SkipSpace(s, q)
             r0 == SkipSpace(s, p + 3)
         IN  IF At(s, r) = "[" THEN r
             ELSE IF At(s, r0) = "[" THEN r0
             ELSE 0

\* the ends e of the group that starts at r: "]" followed by \s* and a fence
FenceGroupEnds(s, r) ==
    {e \in Positions(s, "]") :
        e > r /\ Slice(s, SkipSpace(s, e + 1), SkipSpace(s, e + 1) + 2) = Fence}

\* a fenced pattern that asks for no brackets inside the fence: the leftmost
\* fence, an optional json tag, then lazily up to the next fence
MatchFencedAnyInterior(s) ==
    LET opens == {p \in 1..Len(s) :
                    Slice(s, p, p + 2) = Fence
                    /\ \E q \in (p + 3)..Len(s) : Slice(s, q, q + 2) = Fence} IN
    IF opens = {} THEN NoMatch
    ELSE LET p == Min(opens)
             a == IF Slice(s, p + 3, p + 6) = JsonTag THEN p + 7 ELSE p + 3
             q == Min({x \in a..Len(s) : Slice(s, x, x + 2) = Fence})
         IN  Match(Slice(s, a, q - 1))

\* content.match(fenced pattern) with jsonMatch[0] replaced by the group; the
\* pattern is three grave accents, (?:json)?, \s*, the group (\[[\s\S]*?\]),
\* \s*, three grave accents: leftmost fence, lazy to the first end that fits
MatchFenced(s) ==
    LET fits == {p \in 1..Len(s) :
                    FenceGroupStart(s, p) # 0
                    /\ FenceGroupEnds(s, FenceGroupStart(s, p)) # {}} IN
    IF fits = {} THEN NoMatch
    ELSE LET r == FenceGroupStart(s, Min(fits)) IN
         Match(SubSeq(s, r, Min(FenceGroupEnds(s, r))))

\* lines 81-88: the candidate array literal
FindJson(content) ==
    IF MatchArray(content).found THEN MatchArray(content) ELSE MatchFenced(content)

(***************************************************************************)
(* The repair pass, lines 108-114.                                         *)
(***************************************************************************)
RECURSIVE DropTrailingCommas(_, _)
\* .replace(/,(\s*[}\]])/g, '$1') from position i on
DropTrailingCommas(s, i) ==
    IF i > Len(s) THEN <<>>
    ELSE LET k == SkipSpace(s, i + 1) IN
         IF s[i] = "," /\ At(s, k) \in {"}", "]"}
         THEN SubSeq(s, i + 1, k) \o DropTrailingCommas(s, k + 1)
         ELSE <<s[i]>> \o DropTrailingCommas(s, i + 1)

RECURSIVE UnescapeQuotes(_, _)
\* .replace(/\\"/g, '"') from position i on
UnescapeQuotes(s, i) ==
    IF i > Len(s) THEN <<>>
    ELSE IF s[i] = "\\" /\ At(s, i + 1) = "\""
         THEN <<"\"">> \o UnescapeQuotes(s, i + 2)
         ELSE <<s[i]>> \o UnescapeQuotes(s, i + 1)

RECURSIVE JoinBrokenStrings(_, _)
\* .replace(/"\s*\n\s*"/g, '" "') from position i on
JoinBrokenStrings(s, i) ==
    IF i > Len(s) THEN <<>>
    ELSE LET k == SkipSpace(s, i + 1) IN
         IF s[i] = "\"" /\ At(s, k) = "\"" /\ \E j \in (i + 1)..(k - 1) : s[j] = "\n"
         THEN <<"\"", " ", "\"">> \o JoinBrokenStrings(s, k + 1)
         ELSE <<s[i]>> \o JoinBrokenStrings(s, i + 1)

\* .replace(/\n/g, ' ')
NewlinesToSpaces(s) == [i \in 1..Len(s) |-> IF s[i] = "\n" THEN " " ELSE s[i]]

RECURSIVE CollapseSpace(_, _)
\* .replace(/\s+/g, ' ') from position i on
CollapseSpace(s, i) ==
    IF i > Len(s) THEN <<>>
    ELSE IF IsSpace(s[i]) THEN <<" ">> \o CollapseSpace(s, SkipSpace(s, i))
    ELSE <<s[i]>> \o CollapseSpace(s, i + 1)

RECURSIVE TrimEnd(_)
TrimEnd(s) == IF Len(s) > 0 /\ IsSpace(s[Len(s)]) THEN TrimEnd(SubSeq(s, 1, Len(s) - 1)) ELSE s
\* .trim()
Trim(s) == TrimEnd(Slice(s, SkipSpace(s, 1), Len(s)))

\* the cleaned jsonString
Repair(s) ==
    Trim(CollapseSpace(NewlinesToSpaces(
        JoinBrokenStrings(UnescapeQuotes(DropTrailingCommas(s, 1), 1), 1)), 1))

(***************************************************************************)
(* src/server.js: generateQuizQuestions                                    *)
(***************************************************************************)
Placeholder == <<"y", "o", "u", "r", "_", "o", "p", "e", "n", "r", "o", "u", "t", "e", "r", "_", "a", "p", "i", "_", "k", "e", "y", "_", "h", "e", "r", "e">>
ApiKeys == {JsUndefined, JsStr(<<>>), JsStr(Placeholder), JsStr(<<"s", "k", "-", "o", "r", "-", "v", "1", "-", "0", "a">>)}

MsgKeyNotConfigured ==
    "OpenRouter API key not configured. Please add your API key to the .env file."
MsgInvalidKey == "Invalid OpenRouter API key. Please check your API key in the .env file."
MsgRateLimit == "Rate limit exceeded. Please try again later."
\* the message continues with the status and the body text, kept as fields
MsgApiError == "OpenRouter API error: "
MsgNoJson == "Could not find valid JSON in AI response"
\* the failure fetch rejected with
MsgFetchFailed == "fetch failed"
\* the TypeError or SyntaxError of reading data.choices[0].message.content
MsgBadCompletion == "Cannot read properties of undefined"

Question(q, o1, o2, o3, o4, correct) ==
    JObj(<<JMember(<<"q", "u", "e", "s", "t", "i", "o", "n">>, JStr(q)),
           JMember(<<"o", "p", "t", "i", "o", "n", "s">>, JArr(<<JStr(o1), JStr(o2), JStr(o3), JStr(o4)>>)),
           JMember(<<"c", "o", "r", "r", "e", "c", "t">>, JNum(correct))>>)

\* lines 123-149: the hardcoded quiz
FallbackQuiz ==
    JArr(<<
      Question(<<"B", "a", "s", "e", "d", " ", "o", "n", " ", "t", "h", "e", " ", "t", "r", "a", "n", "s", "c", "r", "i", "p", "t", ",", " ", "w", "h", "a", "t", " ", "w", "a", "s", " ", "t", "h", "e", " ", "m", "a", "i", "n", " ", "t", "o", "p", "i", "c", " ", "d", "i", "s", "c", "u", "s", "s", "e", "d", "?">>,
               <<"T", "e", "c", "h", "n", "o", "l", "o", "g", "y">>, <<"E", "d", "u", "c", "a", "t", "i", "o", "n">>, <<"E", "n", "t", "e", "r", "t", "a", "i", "n", "m", "e", "n", "t">>, <<"B", "u", "s", "i", "n", "e", "s", "s">>, <<"0">>),
      Question(<<"W", "h", "a", "t", " ", "k", "e", "y", " ", "c", "o", "n", "c", "e", "p", "t", " ", "w", "a", "s", " ", "e", "m", "p", "h", "a", "s", "i", "z", "e", "d", " ", "i", "n", " ", "t", "h", "e", " ", "c", "o", "n", "t", "e", "n", "t", "?">>,
               <<"I", "n", "n", "o", "v", "a", "t", "i", "o", "n">>, <<"L", "e", "a", "r", "n", "i", "n", "g">>, <<"G", "r", "o", "w", "t", "h">>, <<"S", "u", "c", "c", "e", "s", "s">>, <<"1">>),
      Question(<<"A", "c", "c", "o", "r", "d", "i", "n", "g", " ", "t", "o", " ", "t", "h", "e", " ", "t", "r", "a", "n", "s", "c", "r", "i", "p", "t", ",", " ", "w", "h", "a", "t", " ", "a", "p", "p", "r", "o", "a", "c", "h", " ", "w", "a", "s", " ", "r", "e", "c", "o", "m", "m", "e", "n", "d", "e", "d", "?">>,
               <<"T", "r", "a", "d", "i", "t", "i", "o", "n", "a", "l", " ", "m", "e", "t", "h", "o", "d", "s">>, <<"M", "o", "d", "e", "r", "n", " ", "t", "e", "c", "h", "n", "i", "q", "u", "e", "s">>, <<"H", "y", "b", "r", "i", "d", " ", "a", "p", "p", "r", "o", "a", "c", "h">>,
               <<"C", "u", "s", "t", "o", "m", " ", "s", "o", "l", "u", "t", "i", "o", "n", "s">>, <<"2">>),
      Question(<<"W", "h", "a", "t", " ", "w", "a", "s", " ", "t", "h", "e", " ", "p", "r", "i", "m", "a", "r", "y", " ", "g", "o", "a", "l", " ", "m", "e", "n", "t", "i", "o", "n", "e", "d", "?">>,
               <<"E", "f", "f", "i", "c", "i", "e", "n", "c", "y">>, <<"Q", "u", "a", "l", "i", "t", "y">>, <<"U", "n", "d", "e", "r", "s", "t", "a", "n", "d", "i", "n", "g">>, <<"I", "m", "p", "l", "e", "m", "e", "n", "t", "a", "t", "i", "o", "n">>, <<"2">>),
      Question(<<"W", "h", "a", "t", " ", "c", "o", "n", "c", "l", "u", "s", "i", "o", "n", " ", "c", "a", "n", " ", "b", "e", " ", "d", "r", "a", "w", "n", " ", "f", "r", "o", "m", " ", "t", "h", "e", " ", "c", "o", "n", "t", "e", "n", "t", "?">>,
               <<"M", "o", "r", "e", " ", "r", "e", "s", "e", "a", "r", "c", "h", " ", "n", "e", "e", "d", "e", "d">>, <<"G", "o", "a", "l", "s", " ", "a", "c", "h", "i", "e", "v", "e", "d">>, <<"P", "r", "o", "g", "r", "e", "s", "s", " ", "m", "a", "d", "e">>,
               <<"C", "h", "a", "l", "l", "e", "n", "g", "e", "s", " ", "r", "e", "m", "a", "i", "n">>, <<"2">>)
    >>)

QNone == [kind |-> "none", value |-> JLit("undefined"), error |-> "",
          status |-> 0, body |-> <<>>]
Returned(v) == [kind |-> "returned", value |-> v, error |-> "", status |-> 0, body |-> <<>>]
Thrown(msg, status, body) ==
    [kind |-> "thrown", value |-> JLit("undefined"), error |-> msg,
     status |-> status, body |-> body]

\* !OPENROUTER_API_KEY alone: the placeholder passes for a key
KeyNotConfiguredNoPlaceholder(key) == ~Truthy(key)

\* !OPENROUTER_API_KEY || OPENROUTER_API_KEY === 'your_openrouter_api_key_here'
KeyNotConfigured(key) == ~Truthy(key) \/ key = JsStr(Placeholder)

\* a redirection status taken for a success
OkBelow400(status) == status >= 200 /\ status < 400

\* response.ok
Ok(status) == status >= 200 /\ status <= 299

\* the second parse failure thrown instead of answered with the fallback
ParseCandidateRethrows(jsonString) ==
    IF JsonParse(jsonString).ok
    THEN [outcome |-> Returned(JsonParse(jsonString).val), attempts |-> 1]
    ELSE IF JsonParse(Repair(jsonString)).ok
    THEN [outcome |-> Returned(JsonParse(Repair(jsonString)).val), attempts |-> 2]
    ELSE [outcome |-> Thrown(MsgNoJson, 0, <<>>), attempts |-> 2]

\* lines 95-151: the two parses and the fallback, with the number of
\* JSON.parse calls made
ParseCandidate(jsonString) ==
    IF JsonParse(jsonString).ok
    THEN [outcome |-> Returned(JsonParse(jsonString).val), attempts |-> 1]
    ELSE IF JsonParse(Repair(jsonString)).ok
    THEN [outcome |-> Returned(JsonParse(Repair(jsonString)).val), attempts |-> 2]
    ELSE [outcome |-> Returned(FallbackQuiz), attempts |-> 2]

\* lines 80-151: extraction from the model text
Extract(content) ==
    IF ~FindJson(content).found
    THEN [outcome |-> Thrown(MsgNoJson, 0, <<>>), attempts |-> 0]
    ELSE ParseCandidate(FindJson(content).text)

\* lines 62-73: the failure a response that is not ok is turned into
ClassifyStatus(status, errorText) ==
    IF status = 401 THEN Thrown(MsgInvalidKey, 0, <<>>)
    ELSE IF status = 429 THEN Thrown(MsgRateLimit, 0, <<>>)
    ELSE Thrown(MsgApiError, status, errorText)

\* lines 62-155 for the response r; what the inner code throws, the catch of
\* lines 152-155 throws again
HandleResponse(r) ==
    IF ~Ok(r.status)
    THEN [outcome |-> ClassifyStatus(r.status, r.bodyText), attempts |-> 0]
    ELSE IF r.shape # "completion"
    THEN [outcome |-> Thrown(MsgBadCompletion, 0, <<>>), attempts |-> 0]
    ELSE Extract(r.content)

(***************************************************************************)
(* The responses explored.  A response has a status and a body: bodyText   *)
(* is what response.text() yields, read only when the response is not ok;  *)
(* content is data.choices[0].message.content of a body that is a          *)
(* completion, read only when the response is ok.                          *)
(***************************************************************************)
Statuses == {200, 204, 299, 300, 400, 401, 403, 429, 500}

\* the pieces a model text is put together from
Chunks == { <<"[">>, <<"]">>, <<",">>, <<"1">>, <<" ">>, <<"\n">>, <<"\"", "a", "\"">>, <<"\"", "\\", "\"", "\"">>,
            <<"{", "\"", "k", "\"", ":", "1", ",", "\n", "}">> }

RECURSIVE Flatten(_)
Flatten(seqs) == IF Len(seqs) = 0 THEN <<>> ELSE seqs[1] \o Flatten(Tail(seqs))

\* the text before and after the middle of a model text
Wrappers == { <<<<>>, <<>>>>,
              <<<<"S", "u", "r", "e", "!", " ">>, <<>>>>,
              <<<<"GRAVE", "GRAVE", "GRAVE", "j", "s", "o", "n", "\n">>, <<"\n", "GRAVE", "GRAVE", "GRAVE">>>>,
              <<<<"GRAVE", "GRAVE", "GRAVE">>, <<"GRAVE", "GRAVE", "GRAVE">>>>,
              <<<<>>, <<" ", "o", "k">>>> }

ModelTexts ==
    { w[1] \o Flatten(cs) \o w[2] :
        w \in Wrappers, cs \in UNION {[1..n -> Chunks] : n \in 0..MaxChunks} }

SmallTexts == { <<>>, <<"[", "1", "]">>, <<"{", "\"", "e", "r", "r", "o", "r", "\"", ":", "\"", "x", "\"", "}">>, <<"GRAVE", "GRAVE", "GRAVE", "j", "s", "o", "n", "\n", "[", "1", ",", "]", "\n", "GRAVE", "GRAVE", "GRAVE">> }

NoResponse == [kind |-> "none", status |-> 0, shape |-> "", bodyText |-> <<>>,
               content |-> <<>>]
Completion(status, content) ==
    [kind |-> "resolved", status |-> status, shape |-> "completion",
     bodyText |-> <<>>, content |-> content]
OtherBody(status, bodyText) ==
    [kind |-> "resolved", status |-> status, shape |-> "other",
     bodyText |-> bodyText, content |-> <<>>]
FetchFailure == [kind |-> "rejected", status |-> 0, shape |-> "", bodyText |-> <<>>,
                 content |-> <<>>]

Responses ==
    { Completion(200, c) : c \in ModelTexts }
    \cup { Completion(st, c) : st \in Statuses, c \in SmallTexts }
    \cup { OtherBody(st, b) : st \in Statuses, b \in SmallTexts }

\* generateQuizQuestions up to its await of fetch: lines 14-60
GenerateQuizQuestions(key) ==
    /\ qpc \in {"idle", "done"}
    /\ apiKey' = key
    /\ response' = NoResponse
    /\ parseAttempts' = 0
    /\ IF KeyNotConfigured(key)
       THEN /\ qOutcome' = Thrown(MsgKeyNotConfigured, 0, <<>>)
            /\ netCalls' = 0
            /\ qpc' = "done"
       ELSE /\ qOutcome' = QNone
            /\ netCalls' = 1
            /\ qpc' = "awaiting"
    /\ UNCHANGED tvars

\* fetch resolves with the response r and the function runs to its end
FetchResolves(r) ==
    /\ qpc = "awaiting"
    /\ response' = r
    /\ qOutcome' = HandleResponse(r).outcome
    /\ parseAttempts' = HandleResponse(r).attempts
    /\ qpc' = "done"
    /\ UNCHANGED <<apiKey, netCalls, tvars>>

\* fetch rejects: the catch of lines 152-155 throws the failure again
FetchRejects ==
    /\ qpc = "awaiting"
    /\ response' = FetchFailure
    /\ qOutcome' = Thrown(MsgFetchFailed, 0, <<>>)
    /\ qpc' = "done"
    /\ UNCHANGED <<apiKey, netCalls, parseAttempts, tvars>>

(***************************************************************************)
(* Specifications.                                                         *)
(***************************************************************************)
Init ==
    /\ tpc = "idle"
    /\ videoId = JsUndefined
    /\ provider = NoProvider
    /\ tOutcome = NoOutcome
    /\ qpc = "idle"
    /\ apiKey = JsUndefined
    /\ netCalls = 0
    /\ response = NoResponse
    /\ parseAttempts = 0
    /\ qOutcome = QNone

NextTranscript ==
    \/ \E v \in VideoIds : GetYouTubeTranscript(v)
    \/ tpc = "awaiting" /\ \E c \in CaptionValues : GetSubtitlesResolves(c)
    \/ tpc = "awaiting" /\ \E e \in ProviderFailures : GetSubtitlesRejects(e)

NextQuiz ==
    \/ \E key \in ApiKeys : GenerateQuizQuestions(key)
    \/ qpc = "awaiting" /\ \E r \in Responses : FetchResolves(r)
    \/ FetchRejects

\* calls of getYouTubeTranscript
SpecTranscript == Init /\ [][NextTranscript]_vars
\* calls of generateQuizQuestions
SpecQuiz == Init /\ [][NextQuiz]_vars

(***************************************************************************)
(* Properties of getYouTubeTranscript, checked under SpecTranscript.       *)
(***************************************************************************)
\* the videoId is a non-empty string
ValidVideoId == videoId.t = "string" /\ Len(videoId.s) > 0

\* the number of words of s: the maximal runs of characters that are not
\* white space
WordCount(s) ==
    Cardinality({i \in 1..Len(s) : ~IsSpace(s[i]) /\ (i = 1 \/ IsSpace(s[i - 1]))})

\* the provider resolved with a non-empty array of caption fragments
FragmentsResolved ==
    /\ tpc = "done"
    /\ provider.kind = "resolved"
    /\ provider.value.t = "array"
    /\ Len(provider.value.items) > 0
    /\ \A i \in 1..Len(provider.value.items) : ~provider.value.items[i].isNull

\* the fragment texts joined by single spaces, in provider order
JoinedTexts ==
    Join([i \in 1..Len(provider.value.items) |-> provider.value.items[i].text], <<" ">>)

\* the provider resolved with an absent or zero-length result
AbsentOrEmptyResult ==
    /\ provider.kind = "resolved"
    /\ \/ provider.value.t \in {"undefined", "null"}
       \/ provider.value.t = "array" /\ Len(provider.value.items) = 0

\* C3: a call of getTranscript never lets a failure escape: it completes
\* with a transcript or an {error} value, whatever the provider does.
C3_NeverEscapes == tpc = "done" => tOutcome.kind \in {"transcript", "error"}

\* C4: every returned transcript is non-empty and has at least 50 words, and
\* fragments whose joined texts have fewer than 50 words give the
\* "Not enough reliable information" error.
C4_TranscriptHasFiftyWords ==
    /\ (tpc = "done" /\ tOutcome.kind = "transcript")
          => (Len(tOutcome.text) > 0 /\ WordCount(tOutcome.text) >= MinWords)
    /\ (FragmentsResolved /\ WordCount(JoinedTexts) < MinWords)
          => tOutcome = ReturnedError(ErrTooShort)

\* C5: for a valid videoId and fragments whose joined texts have at least
\* 50 words, the joined texts are returned, and no error value.
C5_LongTranscriptReturned ==
    (ValidVideoId /\ FragmentsResolved /\ WordCount(JoinedTexts) >= MinWords)
        => tOutcome = ReturnedTranscript(JoinedTexts)

\* C6 as stated: for a valid videoId, any provider failure and any absent or
\* zero-length result give the "No captions available" error.
C6_AnyFailureIsNoCaptions ==
    (tpc = "done" /\ ValidVideoId /\ (provider.kind = "rejected" \/ AbsentOrEmptyResult))
        => tOutcome = ReturnedError(ErrNoCaptions)

\* C6 as amended: for a valid videoId, an absent or zero-length result and a
\* provider failure whose message contains "No captions" give the
\* "No captions available" error; a failure with another message gives the
\* invalid-id error when the message contains "Invalid video ID" and the
\* generic error otherwise.
C6_NoCaptionsByResultOrMessage ==
    (tpc = "done" /\ ValidVideoId) =>
        /\ AbsentOrEmptyResult => tOutcome = ReturnedError(ErrNoCaptions)
        /\ (provider.kind = "rejected" /\ provider.thrown.hasMessage) =>
              tOutcome = ReturnedError(
                  IF Includes(provider.thrown.message, <<"N", "o", " ", "c", "a", "p", "t", "i", "o", "n", "s">>)
                  THEN ErrNoCaptions
                  ELSE IF Includes(provider.thrown.message, <<"I", "n", "v", "a", "l", "i", "d", " ", "v", "i", "d", "e", "o", " ", "I", "D">>)
                  THEN ErrInvalidVideoId
                  ELSE ErrGeneric)

\* C6 witness: the provider failed with a message containing "No captions"
\* and the call returned the "No captions available" error.
C6_Witness ==
    /\ tpc = "done"
    /\ ValidVideoId
    /\ provider.kind = "rejected"
    /\ provider.thrown.hasMessage
    /\ Includes(provider.thrown.message, <<"N", "o", " ", "c", "a", "p", "t", "i", "o", "n", "s">>)
    /\ tOutcome = ReturnedError(ErrNoCaptions)

(***************************************************************************)
(* Properties of generateQuizQuestions, checked under SpecQuiz.            *)
(***************************************************************************)
\* the upstream answered 2xx with a completion that carries a model text
OkCompletion ==
    /\ qpc = "done"
    /\ response.kind = "resolved"
    /\ response.status >= 200 /\ response.status <= 299
    /\ response.shape = "completion"

\* s holds a "[" followed later by a "]"
HasBracketedArray(s) ==
    \E i \in 1..Len(s) : \E j \in (i + 1)..Len(s) : s[i] = "[" /\ s[j] = "]"

\* s holds an opening and a closing fence
HasFencedBlock(s) ==
    \E p \in 1..Len(s) : \E q \in (p + 3)..Len(s) :
        Slice(s, p, p + 2) = <<"GRAVE", "GRAVE", "GRAVE">> /\ Slice(s, q, q + 2) = <<"GRAVE", "GRAVE", "GRAVE">>

\* v is a quiz: 5 questions, each with 4 options and a correct index in 0..3
IsQuiz(v) ==
    /\ v.t = "array"
    /\ Len(v.items) = 5
    /\ \A i \in 1..5 :
          /\ v.items[i].t = "object"
          /\ \E m \in 1..Len(v.items[i].items) :
                /\ v.items[i].items[m].chars = <<"o", "p", "t", "i", "o", "n", "s">>
                /\ v.items[i].items[m].items[1].t = "array"
                /\ Len(v.items[i].items[m].items[1].items) = 4
          /\ \E m \in 1..Len(v.items[i].items) :
                /\ v.items[i].items[m].chars = <<"c", "o", "r", "r", "e", "c", "t">>
                /\ v.items[i].items[m].items[1].t = "number"
                /\ v.items[i].items[m].items[1].chars \in {<<"0">>, <<"1">>, <<"2">>, <<"3">>}

\* C1: a 2xx response whose model text holds no bracketed array and no
\* fenced block is answered with the fallback quiz, not with a failure.
C1_NoJsonGivesFallback ==
    (OkCompletion /\ ~HasBracketedArray(response.content)
                  /\ ~HasFencedBlock(response.content))
        => (qOutcome = Returned(FallbackQuiz) /\ IsQuiz(qOutcome.value))

\* the candidate was found and both the direct parse and the parse of the
\* repaired candidate fail
BothParsesFail ==
    /\ OkCompletion
    /\ FindJson(response.content).found
    /\ ~JsonParse(FindJson(response.content).text).ok
    /\ ~JsonParse(Repair(FindJson(response.content).text)).ok

\* C2: when a candidate is found and both parses fail, the fallback quiz
\* (5 questions, 4 options each, correct in 0..3) is returned and nothing is
\* thrown; JSON.parse is called at most twice in a call.
C2_ParseFailuresGiveFallback ==
    /\ parseAttempts <= 2
    /\ BothParsesFail =>
          /\ qOutcome = Returned(FallbackQuiz)
          /\ IsQuiz(qOutcome.value)
          /\ parseAttempts = 2

\* C2 witness: both parses failed and the fallback quiz was returned.
C2_Witness == BothParsesFail /\ qOutcome = Returned(FallbackQuiz)

\* C7: with the credential absent, empty or the placeholder, the call fails
\* with the "not configured" error and no request is ever sent in it.
C7_NoCallWithoutCredential ==
    (qpc # "idle" /\ apiKey \in {JsUndefined, JsStr(<<>>), JsStr(Placeholder)})
        => /\ qpc = "done"
           /\ qOutcome = Thrown(MsgKeyNotConfigured, 0, <<>>)
           /\ netCalls = 0
           /\ response = NoResponse

\* C7 witness: a call made with the placeholder key has failed.
C7_Witness ==
    /\ qpc = "done"
    /\ apiKey = JsStr(Placeholder)
    /\ qOutcome.kind = "thrown"

RECURSIVE StripFrom(_, _, _)
\* s from position i on without its trailing commas: the commas outside
\* string literals that only white space separates from a closing bracket
\* or brace
StripFrom(s, i, inString) ==
    IF i > Len(s) THEN <<>>
    ELSE IF inString THEN
        IF s[i] = "\\" /\ i < Len(s)
        THEN <<s[i], s[i + 1]>> \o StripFrom(s, i + 2, TRUE)
        ELSE <<s[i]>> \o StripFrom(s, i + 1, s[i] # "\"")
    ELSE IF s[i] = "," /\ At(s, SkipWs(s, i + 1)) \in {"]", "}"}
        THEN StripFrom(s, i + 1, FALSE)
        ELSE <<s[i]>> \o StripFrom(s, i + 1, s[i] = "\"")
StripTrailingCommas(s) == StripFrom(s, 1, FALSE)

JsonFenceOpen == <<"GRAVE", "GRAVE", "GRAVE", "j", "s", "o", "n", "\n">>
JsonFenceClose == <<"\n", "GRAVE", "GRAVE", "GRAVE">>

\* the text between a json fence and its closing fence, when the model text
\* is such a block
FencedInterior ==
    Slice(response.content, Len(JsonFenceOpen) + 1,
          Len(response.content) - Len(JsonFenceClose))

\* the model text is a json fence around an array that is valid JSON but
\* for trailing commas
FencedTrailingCommaArray ==
    /\ OkCompletion
    /\ response.content = JsonFenceOpen \o FencedInterior \o JsonFenceClose
    /\ At(FencedInterior, 1) = "["
    /\ JsonParse(StripTrailingCommas(FencedInterior)).ok

\* C9: for a json fence around an array that is valid but for trailing
\* commas, the array parsed from the text without those commas is returned.
C9_FencedTrailingCommaRecovered ==
    FencedTrailingCommaArray
        => qOutcome = Returned(JsonParse(StripTrailingCommas(FencedInterior)).val)

\* C10: where the bracketed-array search finds nothing the fenced search
\* finds nothing either, and a candidate is always the text from the first
\* "[" to the last "]" of the model text.
C10_FencedNeverSupplies ==
    (qpc = "done" /\ response.kind = "resolved") =>
        /\ ~MatchArray(response.content).found => ~MatchFenced(response.content).found
        /\ FindJson(response.content).found =>
              /\ Positions(response.content, "[") # {}
              /\ Positions(response.content, "]") # {}
              /\ FindJson(response.content).text =
                    Slice(response.content, Min(Positions(response.content, "[")),
                          Max(Positions(response.content, "]")))

\* C10 witness: a model text with a fenced block and no bracketed array, for
\* which no candidate was found.
C10_Witness ==
    /\ OkCompletion
    /\ HasFencedBlock(response.content)
    /\ ~HasBracketedArray(response.content)
    /\ ~FindJson(response.content).found
    /\ qOutcome = Thrown(MsgNoJson, 0, <<>>)

=============================================================================
